---- MODULE Spec2Model ----
(***************************************************************************)
(* jsonprops: the JSON tokenizer (src/json/parser.rs) and the navigation   *)
(* view over its token array (src/json/node.rs).                           *)
(*                                                                         *)
(* Source text is a sequence of one-character strings.  Offsets and token  *)
(* indices are 0-based as in the code: Ch(i) is the character at byte      *)
(* offset i, Tok(ts, i) the token at index i.  The alphabet is ASCII, so   *)
(* byte offsets and character positions coincide.                          *)
(***************************************************************************)
EXTENDS Integers, Sequences, FiniteSets, TLC

VARIABLES
    src,      \* JsonParser.src
    last,     \* PeekIt.last: offset of the peeked character, Len(src) when None
    tokens,   \* JsonParser.tokens
    stack,    \* the container scans in progress (get_array_token / get_object_token)
    pc,       \* where process is: "scan", "failed", "panicked", "returned"
    error,    \* the ParseError being propagated, NoError when there is none
    node,     \* JsonNode.index of the current view
    ret,      \* the last navigation call: its view, name, argument and result
    iter,     \* the JsonObjectIter in use: current, end, and what it has yielded
    schema,   \* the JsonSchema record of JsonSchemaParser::from_str
    prior     \* what an earlier call of process on a prefix of src returned

vars == <<src, last, tokens, stack, pc, error, node, ret, iter, schema, prior>>

(***************************************************************************)
(* Bounds of the inputs.                                                   *)
(***************************************************************************)
MaxLen == 4
MaxScalarLen == 4
MaxIndex == 2

(***************************************************************************)
(* Sequences and characters.                                               *)
(***************************************************************************)
Ch(i) == src[i + 1]

SrcLen == Len(src)

\* &self.src[from..to]
Slice(from, to) == SubSeq(src, from + 1, to)

Tok(ts, i) == ts[i + 1]

RECURSIVE Words(_, _)
Words(pieces, n) ==
    IF n = 0 THEN {<<>>}
    ELSE LET shorter == Words(pieces, n - 1)
         IN  shorter \cup {w \o p : w \in shorter, p \in pieces}

is_whitespace(c) == c \in {" ", "\t", "\n", "\r"}

is_digit(c) == c \in {"0", "1", "2", "3", "4", "5", "6", "7", "8", "9"}

(***************************************************************************)
(* JsonValue, JsonTokenData, JsonToken, ParseError.                        *)
(***************************************************************************)
ValueKinds == {"Null", "True", "False", "Number", "String", "ArrayOpen", "ObjectOpen"}

JsonToken(start, data, n) == [start |-> start, data |-> data, n |-> n]

JsonValue(token) == [data |-> token.data, n |-> token.n]

NoValue == [data |-> "None", n |-> 0]

IsValue(token) == token.data \in ValueKinds

NoError == [kind |-> "None", at |-> 0, c |-> "", value |-> NoValue]

Eof == [kind |-> "Eof", at |-> 0, c |-> "", value |-> NoValue]

Unknown(i, c) == [kind |-> "Unknown", at |-> i, c |-> c, value |-> NoValue]

ValueError(i, value) == [kind |-> "Value", at |-> i, c |-> "", value |-> value]

\* ParseResult of a scalar scanner, with the iterator position it leaves.
ScanOk(token, p) == [ok |-> TRUE, token |-> token, error |-> NoError, last |-> p]

ScanErr(e, p) == [ok |-> FALSE, token |-> JsonToken(0, "None", 0), error |-> e, last |-> p]

(***************************************************************************)
(* The scalar scanners.  Each is entered with the iterator at p, one past  *)
(* the token's first character at offset start.                            *)
(***************************************************************************)

\* get_char that reports the end of the input as an unexpected character.
get_char_no_eof(p, expected) ==
    IF p < SrcLen
    THEN IF Ch(p) = expected
         THEN [ok |-> TRUE, error |-> NoError]
         ELSE [ok |-> FALSE, error |-> Unknown(p, Ch(p))]
    ELSE [ok |-> FALSE, error |-> Unknown(p, expected)]

get_char(p, expected) ==
    IF p < SrcLen
    THEN IF Ch(p) = expected
         THEN [ok |-> TRUE, error |-> NoError]
         ELSE [ok |-> FALSE, error |-> Unknown(p, Ch(p))]
    ELSE [ok |-> FALSE, error |-> Eof]

\* get_char(it, c)?; it.next(); for each c of cs in turn
RECURSIVE ExpectChars(_, _)
ExpectChars(p, cs) ==
    IF cs = <<>> THEN [ok |-> TRUE, error |-> NoError, last |-> p]
    ELSE LET r == get_char(p, Head(cs))
         IN  IF r.ok THEN ExpectChars(p + 1, Tail(cs))
             ELSE [ok |-> FALSE, error |-> r.error, last |-> p]

get_null_token(p, start) ==
    LET r == ExpectChars(p, <<"u", "l", "l">>)
    IN  IF r.ok THEN ScanOk(JsonToken(start, "Null", 0), r.last)
        ELSE ScanErr(r.error, r.last)

get_true_token(p, start) ==
    LET r == ExpectChars(p, <<"r", "u", "e">>)
    IN  IF r.ok THEN ScanOk(JsonToken(start, "True", 0), r.last)
        ELSE ScanErr(r.error, r.last)

get_false_token(p, start) ==
    LET r == ExpectChars(p, <<"a", "l", "s", "e">>)
    IN  IF r.ok THEN ScanOk(JsonToken(start, "False", 0), r.last)
        ELSE ScanErr(r.error, r.last)

\* while let Some((i, c)) = it.peek() { if is_digit(c) { it.next(); ... } }:
\* the offset of the first character at or after p that is no digit.
RECURSIVE SkipDigits(_)
SkipDigits(p) ==
    IF p < SrcLen /\ is_digit(Ch(p)) THEN SkipDigits(p + 1) ELSE p

get_number_token(p, start) ==
    LET e1     == SkipDigits(p)
        digit1 == IF e1 > p THEN e1 - 1 ELSE start
        last1  == IF e1 < SrcLen THEN Ch(e1) ELSE " "
        frac   == last1 = "."
        e2     == IF frac THEN SkipDigits(e1 + 1) ELSE e1
        digit2 == IF frac /\ e2 > e1 + 1 THEN e2 - 1 ELSE digit1
        last2  == IF frac /\ e2 < SrcLen THEN Ch(e2) ELSE last1
    IN  IF last2 \in {"E", "e"}
        THEN IF e2 + 1 < SrcLen
             THEN IF Ch(e2 + 1) \in {"+", "-"}
                  THEN LET e3     == SkipDigits(e2 + 2)
                           digit3 == IF e3 > e2 + 2 THEN e3 - 1 ELSE digit2
                       IN  ScanOk(JsonToken(start, "Number", digit3 + 1 - start), e3)
                  ELSE ScanErr(Unknown(e2 + 1, Ch(e2 + 1)), e2 + 1)
             ELSE ScanErr(Eof, SrcLen)
        ELSE ScanOk(JsonToken(start, "Number", digit2 + 1 - start), e2)

\* The offset of the first '"' at or after p, SrcLen when there is none.
RECURSIVE FindQuote(_)
FindQuote(p) ==
    IF p < SrcLen /\ Ch(p) # "\"" THEN FindQuote(p + 1) ELSE p

\* FindQuote that steps over a quote preceded by a backslash.
RECURSIVE FindQuoteUnescaped(_)
FindQuoteUnescaped(p) ==
    IF p < SrcLen /\ (Ch(p) # "\"" \/ Ch(p - 1) = "\\")
    THEN FindQuoteUnescaped(p + 1) ELSE p

\* get_string_token that honours the escape \".
get_string_token_escaped(p, start) ==
    LET i == FindQuoteUnescaped(p)
    IN  IF i < SrcLen
        THEN ScanOk(JsonToken(start, "String", i + 1 - start), i + 1)
        ELSE ScanErr(Eof, SrcLen)

get_string_token(p, start) ==
    LET i == FindQuote(p)
    IN  IF i < SrcLen
        THEN ScanOk(JsonToken(start, "String", i + 1 - start), i + 1)
        ELSE ScanErr(Eof, SrcLen)

(***************************************************************************)
(* The container scans.  A frame of the stack is one call of               *)
(* get_array_token or get_object_token: the call site of self.parse it is  *)
(* at, its count, and open_index / i of the parse call that made it.       *)
(* A step outcome is: go on at another site, return Ok(count), or fail.    *)
(***************************************************************************)
Cont(site, count) == [tag |-> "cont", site |-> site, count |-> count, error |-> NoError]

Ret(count) == [tag |-> "ret", site |-> "return", count |-> count, error |-> NoError]

Err(e) == [tag |-> "err", site |-> "", count |-> 0, error |-> e]


\* get_array_token that takes ']' after a comma as the end of the array.
get_array_token_lenient(site, count, token) ==
    CASE site = "first" ->
           (CASE token.data = "ArrayClose"  -> Ret(0)
              [] token.data = "ObjectClose" -> Err(Unknown(token.start, "}"))
              [] token.data = "Comma"       -> Err(Unknown(token.start, ","))
              [] token.data = "Colon"       -> Err(Unknown(token.start, ":"))
              [] OTHER                      -> Cont("comma", 1))
      [] site = "comma" ->
           (CASE token.data = "ArrayClose"  -> Ret(count)
              [] token.data = "ObjectClose" -> Err(Unknown(token.start, "}"))
              [] token.data = "Comma"       ->
                   IF count > 0 THEN Cont("value", count + 1)
                   ELSE Err(Unknown(token.start, ","))
              [] token.data = "Colon"       -> Err(Unknown(token.start, ":"))
              [] OTHER                      -> Err(ValueError(token.start, JsonValue(token))))
      [] OTHER ->
           (CASE token.data = "ArrayClose"  -> Ret(count - 1)
              [] token.data = "ObjectClose" -> Err(Unknown(token.start, "}"))
              [] token.data = "Comma"       -> Err(Unknown(token.start, ","))
              [] token.data = "Colon"       -> Err(Unknown(token.start, ":"))
              [] OTHER                      -> Cont("comma", count))

get_array_token(site, count, token) ==
    CASE site = "first" ->
           (CASE token.data = "ArrayClose"  -> Ret(0)
              [] token.data = "ObjectClose" -> Err(Unknown(token.start, "}"))
              [] token.data = "Comma"       -> Err(Unknown(token.start, ","))
              [] token.data = "Colon"       -> Err(Unknown(token.start, ":"))
              [] OTHER                      -> Cont("comma", 1))
      [] site = "comma" ->
           (CASE token.data = "ArrayClose"  -> Ret(count)
              [] token.data = "ObjectClose" -> Err(Unknown(token.start, "}"))
              [] token.data = "Comma"       ->
                   IF count > 0 THEN Cont("value", count + 1)
                   ELSE Err(Unknown(token.start, ","))
              [] token.data = "Colon"       -> Err(Unknown(token.start, ":"))
              [] OTHER                      -> Err(ValueError(token.start, JsonValue(token))))
      [] OTHER ->   \* site = "value"
           (CASE token.data = "ArrayClose"  -> Err(Unknown(token.start, "]"))
              [] token.data = "ObjectClose" -> Err(Unknown(token.start, "}"))
              [] token.data = "Comma"       -> Err(Unknown(token.start, ","))
              [] token.data = "Colon"       -> Err(Unknown(token.start, ":"))
              [] OTHER                      -> Cont("comma", count))

\* colon_value that reports a value in the place of the colon as Unknown.
colon_value_unknown(site, count, token) ==
    CASE site = "colon" ->
           (CASE token.data = "ArrayClose"  -> Err(Unknown(token.start, "]"))
              [] token.data = "ObjectClose" -> Err(Unknown(token.start, "}"))
              [] token.data = "Comma"       -> Err(Unknown(token.start, ","))
              [] token.data = "Colon"       -> Cont("cvalue", count)
              [] OTHER                      -> Err(Unknown(token.start, Ch(token.start))))
      [] OTHER ->
           (CASE token.data = "ArrayClose"  -> Err(Unknown(token.start, "]"))
              [] token.data = "ObjectClose" -> Err(Unknown(token.start, "}"))
              [] token.data = "Comma"       -> Err(Unknown(token.start, ","))
              [] token.data = "Colon"       -> Err(Unknown(token.start, ":"))
              [] OTHER                      -> Cont("comma", IF count = 0 THEN 1 ELSE count))

\* The two parse calls of colon_value; on Ok(token) get_object_token goes on
\* to its loop, with count = 1 after the first entry (line 325).
colon_value(site, count, token) ==
    CASE site = "colon" ->
           (CASE token.data = "ArrayClose"  -> Err(Unknown(token.start, "]"))
              [] token.data = "ObjectClose" -> Err(Unknown(token.start, "}"))
              [] token.data = "Comma"       -> Err(Unknown(token.start, ","))
              [] token.data = "Colon"       -> Cont("cvalue", count)
              [] OTHER                      -> Err(ValueError(token.start, JsonValue(token))))
      [] OTHER ->   \* site = "cvalue"
           (CASE token.data = "ArrayClose"  -> Err(Unknown(token.start, "]"))
              [] token.data = "ObjectClose" -> Err(Unknown(token.start, "}"))
              [] token.data = "Comma"       -> Err(Unknown(token.start, ","))
              [] token.data = "Colon"       -> Err(Unknown(token.start, ":"))
              [] OTHER                      -> Cont("comma", IF count = 0 THEN 1 ELSE count))

get_object_token(site, count, token) ==
    CASE site = "first" ->
           (CASE token.data = "ArrayClose"  -> Err(Unknown(token.start, "]"))
              [] token.data = "ObjectClose" -> Ret(0)
              [] token.data = "Comma"       -> Err(Unknown(token.start, ","))
              [] token.data = "Colon"       -> Err(Unknown(token.start, ":"))
              [] OTHER                      -> Cont("colon", 0))
      [] site = "comma" ->
           (CASE token.data = "ArrayClose"  -> Err(Unknown(token.start, "]"))
              [] token.data = "ObjectClose" -> Ret(count)
              [] token.data = "Comma"       -> Cont("key", count + 1)
              [] token.data = "Colon"       -> Err(Unknown(token.start, ":"))
              [] OTHER                      -> Err(ValueError(token.start, JsonValue(token))))
      [] site = "key" ->
           (CASE token.data = "ArrayClose"  -> Err(Unknown(token.start, "]"))
              [] token.data = "ObjectClose" -> Err(Unknown(token.start, "}"))
              [] token.data = "Comma"       -> Err(Unknown(token.start, ","))
              [] token.data = "Colon"       -> Err(Unknown(token.start, ":"))
              [] OTHER                      -> Cont("colon", count))
      [] OTHER -> colon_value(site, count, token)

Frame(fn, open_index, i) ==
    [fn |-> fn, site |-> "first", count |-> 0, open_index |-> open_index, i |-> i]

Top(stk) == stk[Len(stk)]

Pop(stk) == SubSeq(stk, 1, Len(stk) - 1)

\* The token that self.parse(it)? returned, matched by the caller whose frame
\* is on top of stk; with no frame the caller is process, which returns the
\* parser on any Ok.
Deliver(stk, token) ==
    IF stk = <<>>
    THEN /\ stack' = stk
         /\ pc' = "returned"
         /\ error' = NoError
    ELSE LET f == Top(stk)
             o == IF f.fn = "array"
                  THEN get_array_token(f.site, f.count, token)
                  ELSE get_object_token(f.site, f.count, token)
         IN  IF o.tag = "err"
             THEN /\ stack' = stk
                  /\ pc' = "failed"
                  /\ error' = o.error
             ELSE /\ stack' = [stk EXCEPT ![Len(stk)].site = o.site,
                                          ![Len(stk)].count = o.count]
                  /\ pc' = "scan"
                  /\ error' = NoError

\* A parse call is pending: process or the innermost container scan is about
\* to call self.parse(it).
Scanning == pc = "scan" /\ (IF stack = <<>> THEN TRUE ELSE Top(stack).site # "return")

\* while let Some((i, c)) = it.peek() { it.next(); if c.is_whitespace() { continue; } ...
RECURSIVE SkipWhitespace(_)
SkipWhitespace(p) ==
    IF p < SrcLen /\ is_whitespace(Ch(p)) THEN SkipWhitespace(p + 1) ELSE p

\* parse runs out of input before a token starts.
ParseEof ==
    /\ Scanning
    /\ SkipWhitespace(last) = SrcLen
    /\ last' = SrcLen
    /\ pc' = "failed"
    /\ error' = Eof
    /\ UNCHANGED <<src, tokens, stack, node, ret, iter, schema, prior>>

\* The scanner parse calls for a token of kind data.
Scan(data, p, start) ==
    CASE data = "Null"   -> get_null_token(p, start)
      [] data = "True"   -> get_true_token(p, start)
      [] data = "False"  -> get_false_token(p, start)
      [] data = "Number" -> get_number_token(p, start)
      [] data = "String" -> get_string_token(p, start)

\* One of the scalar branches of parse: scan, push, Ok(token).
ParseScalar(first, data) ==
    /\ Scanning
    /\ LET i == SkipWhitespace(last)
       IN  /\ i < SrcLen
           /\ Ch(i) \in first
           /\ LET r == Scan(data, i + 1, i)
              IN  /\ last' = r.last
                  /\ IF r.ok
                     THEN /\ tokens' = Append(tokens, r.token)
                          /\ Deliver(stack, r.token)
                     ELSE /\ tokens' = tokens
                          /\ stack' = stack
                          /\ pc' = "failed"
                          /\ error' = r.error
    /\ UNCHANGED <<src, node, ret, iter, schema, prior>>

ParseNull == ParseScalar({"n"}, "Null")

ParseTrue == ParseScalar({"t"}, "True")

ParseFalse == ParseScalar({"f"}, "False")

ParseNumber ==
    ParseScalar({"0", "1", "2", "3", "4", "5", "6", "7", "8", "9", "-"}, "Number")

ParseString == ParseScalar({"\""}, "String")

\* ParsePunct that pushes the comma or colon like every other token.
ParsePunctStored(c, data) ==
    /\ Scanning
    /\ LET i == SkipWhitespace(last)
       IN  /\ i < SrcLen
           /\ Ch(i) = c
           /\ last' = i + 1
           /\ tokens' = Append(tokens, JsonToken(i, data, 0))
           /\ Deliver(stack, JsonToken(i, data, 0))
    /\ UNCHANGED <<src, node, ret, iter, schema, prior>>

\* ',' and ':' are returned to the caller and not pushed.
ParsePunct(c, data) ==
    /\ Scanning
    /\ LET i == SkipWhitespace(last)
       IN  /\ i < SrcLen
           /\ Ch(i) = c
           /\ last' = i + 1
           /\ Deliver(stack, JsonToken(i, data, 0))
    /\ UNCHANGED <<src, tokens, node, ret, iter, schema, prior>>

ParseComma == ParsePunct(",", "Comma")

ParseColon == ParsePunct(":", "Colon")

\* ParseClose that reads on over the whitespace after the bracket.
ParseCloseSkipping(c, data) ==
    /\ Scanning
    /\ LET i == SkipWhitespace(last)
           token == JsonToken(i, data, 0)
       IN  /\ i < SrcLen
           /\ Ch(i) = c
           /\ last' = SkipWhitespace(i + 1)
           /\ tokens' = Append(tokens, token)
           /\ Deliver(stack, token)
    /\ UNCHANGED <<src, node, ret, iter, schema, prior>>

\* ']' and '}' are pushed with count 0 and returned.
ParseClose(c, data) ==
    /\ Scanning
    /\ LET i == SkipWhitespace(last)
           token == JsonToken(i, data, 0)
       IN  /\ i < SrcLen
           /\ Ch(i) = c
           /\ last' = i + 1
           /\ tokens' = Append(tokens, token)
           /\ Deliver(stack, token)
    /\ UNCHANGED <<src, node, ret, iter, schema, prior>>

ParseArrayClose == ParseClose("]", "ArrayClose")

ParseObjectClose == ParseClose("}", "ObjectClose")

\* ParseOpen that pushes the open token with its own index in the place of
\* open_index + 1.
ParseOpenOwnIndex(c, data, fn) ==
    /\ Scanning
    /\ LET i == SkipWhitespace(last)
           open_index == Len(tokens)
       IN  /\ i < SrcLen
           /\ Ch(i) = c
           /\ last' = i + 1
           /\ tokens' = Append(tokens, JsonToken(i, data, open_index))
           /\ stack' = Append(stack, Frame(fn, open_index, i))
    /\ UNCHANGED <<src, pc, error, node, ret, iter, schema, prior>>

\* '[' and '{': push the open token with the placeholder open_index + 1 and
\* enter the container scan.
ParseOpen(c, data, fn) ==
    /\ Scanning
    /\ LET i == SkipWhitespace(last)
           open_index == Len(tokens)
       IN  /\ i < SrcLen
           /\ Ch(i) = c
           /\ last' = i + 1
           /\ tokens' = Append(tokens, JsonToken(i, data, open_index + 1))
           /\ stack' = Append(stack, Frame(fn, open_index, i))
    /\ UNCHANGED <<src, pc, error, node, ret, iter, schema, prior>>

ParseArrayOpen == ParseOpen("[", "ArrayOpen", "array")

ParseObjectOpen == ParseOpen("{", "ObjectOpen", "object")

\* Any other character.
ParseUnknown ==
    /\ Scanning
    /\ LET i == SkipWhitespace(last)
       IN  /\ i < SrcLen
           /\ Ch(i) \notin {"n", "t", "f", "0", "1", "2", "3", "4", "5", "6", "7", "8", "9",
                            "-", "\"", ",", "[", "]", ":", "{", "}"}
           /\ last' = i + 1
           /\ pc' = "failed"
           /\ error' = Unknown(i, Ch(i))
    /\ UNCHANGED <<src, tokens, stack, node, ret, iter, schema, prior>>


\* BackPatch without the update of the open token: the placeholder stays.
BackPatchCloseOnly(ts, f, data_open, data_close) ==
    LET close_index == Len(ts) - 1
    IN  [ts EXCEPT ![close_index + 1] =
             JsonToken(Tok(ts, close_index).start, data_close, f.count)]

\* The tokens after the back-patch of lines 410-423 (443-460): the open token
\* gets the close index, the close token the item count.
BackPatch(ts, f, data_open, data_close) ==
    LET close_index == Len(ts) - 1
        opened == [ts EXCEPT ![f.open_index + 1] = JsonToken(f.i, data_open, close_index)]
    IN  [opened EXCEPT ![close_index + 1] =
             JsonToken(Tok(opened, close_index).start, data_close, f.count)]

\* get_array_token / get_object_token returned Ok(item_count): parse patches
\* the two tokens and returns the open token to its own caller.
ContainerReturn(fn, data_open, data_close) ==
    /\ pc = "scan"
    /\ stack # <<>>
    /\ Top(stack).site = "return"
    /\ Top(stack).fn = fn
    /\ LET f == Top(stack)
           ts == BackPatch(tokens, f, data_open, data_close)
       IN  /\ tokens' = ts
           /\ Deliver(Pop(stack), Tok(ts, f.open_index))
    /\ UNCHANGED <<src, last, node, ret, iter, schema, prior>>

ArrayReturn == ContainerReturn("array", "ArrayOpen", "ArrayClose")

ObjectReturn == ContainerReturn("object", "ObjectOpen", "ObjectClose")

\* PropagateError with the enclosing container scan swallowing the error and
\* going on.
PropagateErrorSwallowed ==
    /\ pc = "failed"
    /\ stack # <<>>
    /\ stack' = Pop(stack)
    /\ pc' = "scan"
    /\ error' = NoError
    /\ UNCHANGED <<src, last, tokens, node, ret, iter, schema, prior>>

\* The error leaves one container scan through the ? of its parse call.
PropagateError ==
    /\ pc = "failed"
    /\ stack # <<>>
    /\ stack' = Pop(stack)
    /\ UNCHANGED <<src, last, tokens, pc, error, node, ret, iter, schema, prior>>

\* process prints the error and panics; no parser is returned.
ProcessPanic ==
    /\ pc = "failed"
    /\ stack = <<>>
    /\ pc' = "panicked"
    /\ UNCHANGED <<src, last, tokens, stack, error, node, ret, iter, schema, prior>>

(***************************************************************************)
(* Navigation: JsonParser's accessors and JsonNode.  An index past the     *)
(* token array, a range that is no range of src, and the explicit panic!() *)
(* arms abort the call.                                                    *)
(***************************************************************************)
Panic == [panic |-> TRUE, index |-> 0]

Index(i) == [panic |-> FALSE, index |-> i]


\* next_sibling_index that steps into a container instead of over it.
next_sibling_index_into(index) ==
    IF index >= Len(tokens) THEN Panic
    ELSE IF IsValue(Tok(tokens, index)) THEN Index(index + 1)
    ELSE Panic

next_sibling_index(index) ==
    IF index >= Len(tokens) THEN Panic
    ELSE LET token == Tok(tokens, index)
         IN  IF token.data \in {"ArrayOpen", "ObjectOpen"} THEN Index(token.n + 1)
             ELSE IF IsValue(token) THEN Index(index + 1)
             ELSE Panic

value_len(value) ==
    CASE value.data = "Null"   -> 4
      [] value.data = "True"   -> 4
      [] value.data = "False"  -> 5
      [] value.data = "Number" -> value.n
      [] value.data = "String" -> value.n

NoRange == [panic |-> TRUE, from |-> 0, to |-> 0]

\* &self.src[from..to] panics unless from <= to <= src.len()
Range(from, to) ==
    IF from <= to /\ to <= SrcLen THEN [panic |-> FALSE, from |-> from, to |-> to]
    ELSE NoRange


\* get_slice that ends a container at close.start, leaving the bracket out.
get_slice_open_ended(index) ==
    IF index >= Len(tokens) THEN NoRange
    ELSE LET token == Tok(tokens, index)
         IN  IF token.data \in {"ArrayOpen", "ObjectOpen"}
             THEN IF token.n >= Len(tokens) THEN NoRange
                  ELSE Range(token.start, Tok(tokens, token.n).start)
             ELSE IF IsValue(token)
                  THEN Range(token.start, token.start + value_len(JsonValue(token)))
                  ELSE Range(token.start, token.start + 1)

\* The range of src that get_slice(index) returns.
get_slice(index) ==
    IF index >= Len(tokens) THEN NoRange
    ELSE LET token == Tok(tokens, index)
         IN  IF token.data \in {"ArrayOpen", "ObjectOpen"}
             THEN IF token.n >= Len(tokens) THEN NoRange
                  ELSE Range(token.start, Tok(tokens, token.n).start + 1)
             ELSE IF IsValue(token)
                  THEN Range(token.start, token.start + value_len(JsonValue(token)))
                  ELSE Range(token.start, token.start + 1)

\* get_bool with the panic!() arm of next_sibling_index for a token that is
\* no Value.
get_bool_strict(index) ==
    IF index >= Len(tokens) THEN "abort"
    ELSE LET token == Tok(tokens, index)
         IN  IF ~IsValue(token) THEN "abort"
             ELSE IF token.data = "True" THEN "true"
             ELSE IF token.data = "False" THEN "false"
             ELSE "none"

\* Some(true), Some(false) or None; self.tokens[index] aborts past the end.
get_bool(index) ==
    IF index >= Len(tokens) THEN "abort"
    ELSE LET token == Tok(tokens, index)
         IN  IF token.data = "True" THEN "true"
             ELSE IF token.data = "False" THEN "false"
             ELSE "none"

\* Some(&self.src[token.start + 1..token.start + len - 1]) for a String token
get_string(index) ==
    IF index >= Len(tokens) THEN [tag |-> "abort", text |-> <<>>]
    ELSE LET token == Tok(tokens, index)
         IN  IF token.data = "String"
             THEN LET r == Range(token.start + 1, token.start + token.n - 1)
                  IN  IF r.panic THEN [tag |-> "abort", text |-> <<>>]
                      ELSE [tag |-> "some", text |-> Slice(r.from, r.to)]
             ELSE [tag |-> "none", text |-> <<>>]

(***************************************************************************)
(* str::parse::<i64>.  An i64 is kept as its sign and its decimal digits   *)
(* without leading zeros, so that the whole range -2^63 .. 2^63 - 1 is     *)
(* there.                                                                  *)
(***************************************************************************)
I64Max ==
    <<"9", "2", "2", "3", "3", "7", "2", "0", "3", "6", "8", "5", "4", "7", "7", "5", "8", "0", "7">>

I64MinMagnitude ==
    <<"9", "2", "2", "3", "3", "7", "2", "0", "3", "6", "8", "5", "4", "7", "7", "5", "8", "0", "8">>

DigitValue(c) ==
    CASE c = "0" -> 0 [] c = "1" -> 1 [] c = "2" -> 2 [] c = "3" -> 3 [] c = "4" -> 4
      [] c = "5" -> 5 [] c = "6" -> 6 [] c = "7" -> 7 [] c = "8" -> 8 [] c = "9" -> 9

RECURSIVE StripZeros(_)
StripZeros(digits) ==
    IF Len(digits) > 1 /\ Head(digits) = "0" THEN StripZeros(Tail(digits)) ELSE digits

\* a > b for two digit sequences of the same length
RECURSIVE DigitsGreater(_, _)
DigitsGreater(a, b) ==
    IF a = <<>> THEN FALSE
    ELSE IF Head(a) # Head(b) THEN DigitValue(Head(a)) > DigitValue(Head(b))
    ELSE DigitsGreater(Tail(a), Tail(b))

\* checked_mul / checked_add (checked_sub) overflow: the magnitude is above limit
Overflows(mag, limit) ==
    \/ Len(mag) > Len(limit)
    \/ Len(mag) = Len(limit) /\ DigitsGreater(mag, limit)

I64(neg, mag) == [tag |-> "some", neg |-> neg, mag |-> mag]

NoI64 == [tag |-> "none", neg |-> FALSE, mag |-> <<>>]

ParseI64(segment) ==
    IF segment = <<>> THEN NoI64
    ELSE LET signed == Head(segment) \in {"+", "-"}
             neg    == Head(segment) = "-"
             digits == IF signed THEN Tail(segment) ELSE segment
         IN  IF digits = <<>> THEN NoI64
             ELSE IF \E k \in 1..Len(digits) : ~is_digit(digits[k]) THEN NoI64
             ELSE LET mag == StripZeros(digits)
                  IN  IF Overflows(mag, IF neg THEN I64MinMagnitude ELSE I64Max) THEN NoI64
                      ELSE I64(neg /\ mag # <<"0">>, mag)

\* JsonParser::get_int
get_int(index) ==
    IF index >= Len(tokens) THEN [NoI64 EXCEPT !.tag = "abort"]
    ELSE LET token == Tok(tokens, index)
         IN  IF token.data = "Number"
             THEN LET r == Range(token.start, token.start + token.n)
                  IN  IF r.panic THEN [NoI64 EXCEPT !.tag = "abort"]
                      ELSE ParseI64(Slice(r.from, r.to))
             ELSE NoI64

\* for _ in 0..n { current = self.parser.next_sibling_index(current); }
RECURSIVE Walk(_, _)
Walk(current, n) ==
    IF n = 0 THEN Index(current)
    ELSE LET next == next_sibling_index(current)
         IN  IF next.panic THEN Panic ELSE Walk(next.index, n - 1)

NodeOk(i) == [tag |-> "ok", index |-> i]

NodeErr == [tag |-> "err", index |-> 0]

NodeAbort == [tag |-> "abort", index |-> 0]


\* get that starts the walk on the array's own token instead of its first child.
get_from_self(self, index) ==
    IF self >= Len(tokens) THEN NodeAbort
    ELSE IF Tok(tokens, self).data = "ArrayOpen"
         THEN LET w == Walk(self, index)
              IN  IF w.panic THEN NodeAbort ELSE NodeOk(w.index)
         ELSE NodeErr

\* JsonNode::get
get(self, index) ==
    IF self >= Len(tokens) THEN NodeAbort
    ELSE IF Tok(tokens, self).data = "ArrayOpen"
         THEN LET w == Walk(self + 1, index)
              IN  IF w.panic THEN NodeAbort ELSE NodeOk(w.index)
         ELSE NodeErr

\* JsonNode::array_len
array_len(self) == [tag |-> "none", n |-> 0]

\* The loop of JsonNode::key from current on.
RECURSIVE KeyLoop(_, _, _)
KeyLoop(current, close_index, target) ==
    IF current < close_index
    THEN LET value_index == next_sibling_index(current)
             key == get_slice(current)
         IN  IF value_index.panic \/ key.panic THEN NodeAbort
             ELSE IF Range(key.from + 1, key.to - 1).panic THEN NodeAbort
             ELSE IF Slice(key.from + 1, key.to - 1) = target THEN NodeOk(value_index.index)
             ELSE LET next == next_sibling_index(value_index.index)
                  IN  IF next.panic THEN NodeAbort
                      ELSE KeyLoop(next.index, close_index, target)
    ELSE NodeErr


\* The loop of key going on at value_index + 1: into a container value.
RECURSIVE KeyLoopInto(_, _, _)
KeyLoopInto(current, close_index, target) ==
    IF current < close_index
    THEN LET value_index == next_sibling_index(current)
             key == get_slice(current)
         IN  IF value_index.panic \/ key.panic THEN NodeAbort
             ELSE IF Range(key.from + 1, key.to - 1).panic THEN NodeAbort
             ELSE IF Slice(key.from + 1, key.to - 1) = target THEN NodeOk(value_index.index)
             ELSE KeyLoopInto(value_index.index + 1, close_index, target)
    ELSE NodeErr

key_into(self, target) ==
    IF self >= Len(tokens) THEN NodeAbort
    ELSE IF Tok(tokens, self).data = "ObjectOpen"
         THEN KeyLoopInto(self + 1, Tok(tokens, self).n, target)
         ELSE NodeErr

\* JsonNode::key
key(self, target) ==
    IF self >= Len(tokens) THEN NodeAbort
    ELSE IF Tok(tokens, self).data = "ObjectOpen"
         THEN KeyLoop(self + 1, Tok(tokens, self).n, target)
         ELSE NodeErr

(***************************************************************************)
(* The navigation calls a caller can make on the parser process returned.  *)
(* node is the view the calls are made on: the root (index 0), then        *)
(* whatever view get or key last returned.                                 *)
(***************************************************************************)
NoRet ==
    [op |-> "none", from |-> 0, n |-> 0, key |-> <<>>, tag |-> "", index |-> 0,
     text |-> <<>>, neg |-> FALSE]

Targets == {<<"a">>, <<"b">>, <<"1">>, <<"k", "e", "y">>, <<"k", "e", "y", "2">>}

\* A caller holds the parser process returned and a view it has just been
\* given: the root view, or the one get or key returned.  The calls read
\* tokens and src only, so a call made after one that returned no view finds
\* what that one found, and is not taken again.
HoldsView ==
    /\ pc = "returned"
    /\ IF ret.op \in {"get", "key"} THEN ret.tag = "ok" ELSE ret.op = "none"

NodeSlice ==
    /\ HoldsView
    /\ LET r == get_slice(node)
       IN  ret' = [NoRet EXCEPT !.op = "slice", !.from = node,
                                !.tag = IF r.panic THEN "abort" ELSE "ok",
                                !.text = IF r.panic THEN <<>> ELSE Slice(r.from, r.to)]
    /\ UNCHANGED <<src, last, tokens, stack, pc, error, node, iter, schema, prior>>

\* JsonNode::get_int; the digits of the i64 are returned in text.
NodeGetInt ==
    /\ HoldsView
    /\ LET r == get_int(node)
       IN  ret' = [NoRet EXCEPT !.op = "get_int", !.from = node,
                                !.tag = r.tag, !.neg = r.neg, !.text = r.mag]
    /\ UNCHANGED <<src, last, tokens, stack, pc, error, node, iter, schema, prior>>

NodeGetString ==
    /\ HoldsView
    /\ LET r == get_string(node)
       IN  ret' = [NoRet EXCEPT !.op = "get_string", !.from = node,
                                !.tag = r.tag, !.text = r.text]
    /\ UNCHANGED <<src, last, tokens, stack, pc, error, node, iter, schema, prior>>

\* JsonParser::get_bool on the index of the view (JsonNode has no get_bool).
NodeGetBool ==
    /\ HoldsView
    /\ ret' = [NoRet EXCEPT !.op = "get_bool", !.from = node, !.tag = get_bool(node)]
    /\ UNCHANGED <<src, last, tokens, stack, pc, error, node, iter, schema, prior>>

NodeArrayLen ==
    /\ HoldsView
    /\ LET r == array_len(node)
       IN  ret' = [NoRet EXCEPT !.op = "array_len", !.from = node,
                                !.tag = r.tag, !.n = r.n]
    /\ UNCHANGED <<src, last, tokens, stack, pc, error, node, iter, schema, prior>>

NodeGet ==
    /\ HoldsView
    /\ \E index \in 0..MaxIndex :
         LET r == get(node, index)
         IN  /\ ret' = [NoRet EXCEPT !.op = "get", !.from = node, !.n = index,
                                     !.tag = r.tag, !.index = r.index]
             /\ node' = IF r.tag = "ok" THEN r.index ELSE node
    /\ UNCHANGED <<src, last, tokens, stack, pc, error, iter, schema, prior>>

NodeKey ==
    /\ HoldsView
    /\ \E target \in Targets :
         LET r == key(node, target)
         IN  /\ ret' = [NoRet EXCEPT !.op = "key", !.from = node, !.key = target,
                                     !.tag = r.tag, !.index = r.index]
             /\ node' = IF r.tag = "ok" THEN r.index ELSE node
    /\ UNCHANGED <<src, last, tokens, stack, pc, error, iter, schema, prior>>

(***************************************************************************)
(* JsonObjectIter.  iter holds the iterator a caller got from object_iter  *)
(* and, for the properties, how many items and how many None it has given. *)
(***************************************************************************)
MaxDry == 2

NoIter == [on |-> FALSE, current |-> 0, end |-> 0, yielded |-> 0, dry |-> 0]

\* JsonNode::object_iter: the cursor and the end of the iterator, no range
\* to iterate when the token is no ObjectOpen; self.token() aborts past the end.
object_iter(self) ==
    IF self >= Len(tokens) THEN [tag |-> "abort", current |-> 0, end |-> 0]
    ELSE IF Tok(tokens, self).data = "ObjectOpen"
         THEN [tag |-> "ok", current |-> self + 1, end |-> Tok(tokens, self).n]
         ELSE [tag |-> "ok", current |-> self + 1, end |-> self + 1]

IterItem(tag, current, text, index) ==
    [tag |-> tag, current |-> current, text |-> text, index |-> index]

\* JsonObjectIter::next: the item, and the cursor it leaves.
JsonObjectIter_next(current, end) ==
    IF current = end THEN IterItem("none", current, <<>>, 0)
    ELSE LET value_index == next_sibling_index(current)
         IN  IF value_index.panic THEN IterItem("abort", current, <<>>, 0)
             ELSE LET after == next_sibling_index(value_index.index)
                      name == get_string(current)
                  IN  IF after.panic \/ name.tag = "abort"
                      THEN IterItem("abort", current, <<>>, 0)
                      ELSE IF name.tag = "some"
                      THEN IterItem("some", after.index, name.text, value_index.index)
                      ELSE IterItem("none", after.index, <<>>, 0)

NodeObjectIter ==
    /\ HoldsView
    /\ LET r == object_iter(node)
       IN  /\ ret' = [NoRet EXCEPT !.op = "object_iter", !.from = node, !.tag = r.tag]
           /\ iter' = IF r.tag = "ok"
                      THEN [NoIter EXCEPT !.on = TRUE, !.current = r.current, !.end = r.end]
                      ELSE NoIter
    /\ UNCHANGED <<src, last, tokens, stack, pc, error, node, schema, prior>>

\* One call of next() on the iterator; a caller stops calling after MaxDry
\* answers of None.
IterNext ==
    /\ pc = "returned"
    /\ iter.on
    /\ ret.op \in {"object_iter", "next"}
    /\ ret.tag # "abort"
    /\ iter.dry < MaxDry
    /\ LET r == JsonObjectIter_next(iter.current, iter.end)
       IN  /\ ret' = [NoRet EXCEPT !.op = "next", !.from = ret.from, !.tag = r.tag,
                                   !.text = r.text, !.index = r.index]
           /\ iter' = [iter EXCEPT !.current = r.current,
                                   !.yielded = @ + (IF r.tag = "some" THEN 1 ELSE 0),
                                   !.dry = @ + (IF r.tag = "none" THEN 1 ELSE 0)]
    /\ UNCHANGED <<src, last, tokens, stack, pc, error, node, schema, prior>>

NoSchema ==
    [state |-> "none", title |-> <<>>, description |-> <<>>, json_type |-> <<>>]

(***************************************************************************)
(* JsonSchemaParser::from_str, after its call of JsonParser::process has   *)
(* returned the parser: the loop over root.object_iter().                  *)
(***************************************************************************)
KeyTitle == <<"t", "i", "t", "l", "e">>

KeyDescription == <<"d", "e", "s", "c", "r", "i", "p", "t", "i", "o", "n">>

KeyType == <<"t", "y", "p", "e">>

KeyAllOf == <<"a", "l", "l", "O", "f">>

KeyRef == <<"$", "r", "e", "f">>

\* JsonNode::object_len
object_len(self) == 0

\* JsonSchema::set_allof: "ok", "err", or "abort" when a call it makes aborts.
\* object_len() gives the usize 0 where the code matches Some(len): the
\* branch under it is never taken.
set_allof(v) ==
    LET len == array_len(v)
    IN  IF len.tag = "some" /\ len.n = 1
        THEN LET first == get(v, 0)
             IN  IF first.tag = "abort" THEN "abort"
                 ELSE IF first.tag = "ok" /\ object_len(first.index) = 1
                 THEN LET value == key(first.index, KeyRef)
                      IN  IF value.tag = "abort" THEN "abort"
                          ELSE IF value.tag = "err" THEN "err"
                          ELSE IF get_string(value.index).tag = "abort" THEN "abort"
                          ELSE IF get_string(value.index).tag = "some" THEN "ok"
                          ELSE "err"
                 ELSE "err"
        ELSE "err"

\* The record after the arm of the match for the item (k, v).
SchemaArm(rec, k, v) ==
    LET s == get_string(v)
    IN  IF k \in {KeyTitle, KeyDescription, KeyType}
        THEN IF s.tag = "abort" THEN [rec EXCEPT !.state = "panicked"]
             ELSE IF s.tag = "none" THEN rec
             ELSE IF k = KeyTitle THEN [rec EXCEPT !.title = s.text]
             ELSE IF k = KeyDescription THEN [rec EXCEPT !.description = s.text]
             ELSE [rec EXCEPT !.json_type = s.text]
        ELSE IF k = KeyAllOf
        THEN IF set_allof(v) = "ok" THEN rec ELSE [rec EXCEPT !.state = "panicked"]
        ELSE IF k \in {<<"$", "s", "c", "h", "e", "m", "a">>,
                       <<"r", "e", "q", "u", "i", "r", "e", "d">>,
                       <<"d", "e", "p", "e", "n", "d", "e", "n", "c", "i", "e", "s">>,
                       <<"p", "r", "o", "p", "e", "r", "t", "i", "e", "s">>}
        THEN rec
        ELSE IF get_slice(v).panic THEN [rec EXCEPT !.state = "panicked"] ELSE rec

\* for (k, v) in root.object_iter() { match k { ... } }: the loop ends at the
\* first None.
RECURSIVE SchemaLoop(_, _, _)
SchemaLoop(current, end, rec) ==
    LET item == JsonObjectIter_next(current, end)
    IN  IF item.tag = "abort" THEN [rec EXCEPT !.state = "panicked"]
        ELSE IF item.tag = "none" THEN [rec EXCEPT !.state = "done"]
        ELSE LET after == SchemaArm(rec, item.text, item.index)
             IN  IF after.state = "panicked" THEN after
                 ELSE SchemaLoop(item.current, end, after)

from_str ==
    LET it == object_iter(0)
    IN  IF it.tag = "abort" THEN [NoSchema EXCEPT !.state = "panicked"]
        ELSE SchemaLoop(it.current, it.end, NoSchema)

\* from_str on the parser its call of process returned.
FromStr ==
    /\ pc = "returned"
    /\ ret = NoRet
    /\ schema' = from_str
    /\ ret' = [NoRet EXCEPT !.op = "from_str"]
    /\ UNCHANGED <<src, last, tokens, stack, pc, error, node, iter, prior>>

(***************************************************************************)
(* Inputs: every text of at most MaxLen structural pieces, every text of   *)
(* at most MaxScalarLen scalar characters, the keywords cut short or       *)
(* followed by one more character, the well-formed documents of two levels *)
(* with the single-character edits of the flat ones, and the inputs of the *)
(* repository's tests.                                                     *)
(***************************************************************************)
Str(c) == <<"\"", c, "\"">>

StructPieces ==
    {<<"[">>, <<"]">>, <<"{">>, <<"}">>, <<",">>, <<":">>, <<"1">>, Str("a")}

ScalarPieces == {<<"1">>, <<"-">>, <<".">>, <<"e">>, <<"+">>, <<"\"">>, <<" ">>}

Keywords == {<<"n", "u", "l", "l">>, <<"t", "r", "u", "e">>, <<"f", "a", "l", "s", "e">>}

KeywordEdits(kw) ==
    {pre \o SubSeq(kw, 1, k) \o post :
        k \in 1..Len(kw),
        pre \in {<<>>, <<" ">>},
        post \in {<<>>, <<" ">>, <<"l">>, <<"e">>, <<"x">>}}

KeywordInputs == UNION {KeywordEdits(kw) : kw \in Keywords}

RECURSIVE Join(_)
Join(items) ==
    IF items = <<>> THEN <<>>
    ELSE IF Len(items) = 1 THEN Head(items)
    ELSE Head(items) \o <<",">> \o Join(Tail(items))

UpToOne(S) == {<<>>} \cup {<<x>> : x \in S}

UpToTwo(S) == UpToOne(S) \cup {<<x, y>> : x \in S, y \in S}

Array(items) == <<"[">> \o Join(items) \o <<"]">>

Object(entries) == <<"{">> \o Join(entries) \o <<"}">>

Entries(S) == {k \o <<":">> \o v : k \in {Str("a"), Str("b")}, v \in S}

Scalars == {<<"1">>, Str("a")}

FlatDocs ==
    {Array(l) : l \in UpToTwo(Scalars)} \cup {Object(l) : l \in UpToTwo(Entries(Scalars))}

SmallDocs ==
    {Array(l) : l \in UpToOne({<<"1">>})} \cup {Object(l) : l \in UpToOne(Entries({<<"1">>}))}

NestedDocs ==
    {Array(l) : l \in UpToTwo(Scalars \cup SmallDocs)}
        \cup {Object(l) : l \in UpToTwo(Entries(Scalars \cup SmallDocs))}

EditChars == {"[", "]", "{", "}", ",", ":", "1", "\"", " "}

Edits(d) ==
    {SubSeq(d, 1, k) : k \in 0..Len(d)}
        \cup {SubSeq(d, 1, k - 1) \o SubSeq(d, k + 1, Len(d)) : k \in 1..Len(d)}
        \cup {SubSeq(d, 1, k) \o <<c>> \o SubSeq(d, k + 1, Len(d)) :
                 k \in 0..Len(d), c \in EditChars}

\* slice_tests and node_tests of node.rs, and the documents of their kind
\* that the other families are too short for.
TestInputs ==
    {<<" ", "1">>,
     <<" ", "\"", "h", "o", "g", "e", "\"", " ">>,
     <<" ", "[", "1", ",", " ", "2", ",", " ", "3", "]">>,
     <<" ", "{", "\"", "k", "e", "y", "\"", ":", " ", "t", "r", "u", "e", "}">>,
     <<"[", "1", ",", " ", "2", ",", " ", "3", "]">>,
     <<"{", " ", "\"", "k", "e", "y", "\"", ":", " ", "t", "r", "u", "e", " ", "}">>,
     <<"{", " ", "\"", "k", "e", "y", "\"", ":", " ", "{", "\"", "k", "e", "y", "2", "\"",
       ":", " ", "t", "r", "u", "e", " ", "}", "}">>,
     <<"[", "1", ",", " ", "2", ",", "]">>,
     <<"{", "\"", "a", "\"", ":", "1">>,
     <<"[", "n", "u", "l", "l", ",", "f", "a", "l", "s", "e", ",", "t", "r", "u", "e", "]">>,
     <<"[", "-", "1", "2", ".", "5", "e", "+", "3", ",", "1", ".", ",", "-", "]">>,
     <<"{", "[", "1", "]", ":", "1", ",", "n", "u", "l", "l", ":", "1", "}">>,
     <<"{", "1", ":", "2", "}">>,
     <<"[", "{", "\"", "a", "\"", ":", "1", ",", " ", "}", "]">>,
     <<"[", "1", ",", " ", "n", "u", "l">>,
     <<"[", "\"", "a", "\\", "\"", ",", "\"", "b", "\"", "]">>,
     <<"\"", "\\", "\"", "\"">>,
     <<"[", "\"", "\\">>,
     <<"[", "{", "\"", "a", "\"", ":", "[", "1", ",", "{", "}", "]", ",", "\"", "b", "\"", ":",
       "2", "}", ",", " ", "2", "]", " ">>}

\* Schema documents for from_str.
SchemaInputs ==
    {<<"{", "\"", "t", "i", "t", "l", "e", "\"", ":", "\"", "T", "\"", ",", "\"", "d", "e", "s",
       "c", "r", "i", "p", "t", "i", "o", "n", "\"", ":", "\"", "D", "\"", ",", "\"", "t", "y",
       "p", "e", "\"", ":", "\"", "o", "\"", "}">>,
     <<"{", "\"", "t", "i", "t", "l", "e", "\"", ":", "\"", "T", "\"", ",", " ", "\"", "t", "i",
       "t", "l", "e", "\"", ":", "\"", "U", "\"", "}">>,
     <<"{", "\"", "t", "i", "t", "l", "e", "\"", ":", "1", ",", "\"", "x", "\"", ":", "[", "1",
       "]", ",", "\"", "$", "s", "c", "h", "e", "m", "a", "\"", ":", "\"", "s", "\"", "}">>,
     <<"{", "\"", "a", "l", "l", "O", "f", "\"", ":", "[", "{", "\"", "$", "r", "e", "f", "\"",
       ":", "\"", "r", "\"", "}", "]", ",", "\"", "t", "i", "t", "l", "e", "\"", ":", "\"", "T",
       "\"", "}">>,
     <<"{", "\"", "t", "y", "p", "e", "\"", ":", "\"", "o", "\"", ",", "\"", "r", "e", "q", "u",
       "i", "r", "e", "d", "\"", ":", "[", "\"", "a", "\"", "]", ",", "\"", "p", "r", "o", "p",
       "e", "r", "t", "i", "e", "s", "\"", ":", "{", "\"", "t", "i", "t", "l", "e", "\"", ":",
       "\"", "N", "\"", "}", "}">>,
     <<"{", "\"", "t", "i", "t", "l", "e", "\"", ":", "\"", "T", "\"", ",", "\"", "t", "i", "t",
       "l", "e", "\"", ":", "1", "}">>,
     <<"{", "\"", "t", "y", "p", "e", "\"", ":", "\"", "o", "\"", ",", "1", ":", "2", ",", "\"",
       "t", "i", "t", "l", "e", "\"", ":", "\"", "T", "\"", "}">>,
     <<"[", "\"", "t", "i", "t", "l", "e", "\"", ",", "\"", "T", "\"", "]">>}

\* Integer literals at the ends of the i64 range, as array elements.
WideLiterals ==
    {I64Max, <<"-">> \o I64MinMagnitude, I64MinMagnitude, <<"-">> \o I64Max \o <<"0">>,
     <<"0", "0">> \o I64Max, <<"-", "0">>, <<"0", "7">>,
     <<"9", "9", "9", "9", "9", "9", "9", "9", "9", "9", "9", "9", "9", "9", "9", "9", "9",
       "9", "9", "9">>}

WideInputs == {Array(<<w>>) : w \in WideLiterals}

Inputs ==
    Words(StructPieces, MaxLen) \cup Words(ScalarPieces, MaxScalarLen)
        \cup KeywordInputs \cup NestedDocs \cup UNION {Edits(d) : d \in FlatDocs}
        \cup TestInputs \cup WideInputs \cup SchemaInputs

(***************************************************************************)
(* A second call of JsonParser::process, on the source of the first call   *)
(* followed by more text.  prior keeps what the first call returned.       *)
(***************************************************************************)
NoPrior == [set |-> FALSE, tokens |-> <<>>, len |-> 0, last |-> 0]

\* The texts put after the first source.
Suffixes ==
    { <<"]">>, <<"}">>, <<"x">>, <<",">>, <<"\"">>, <<"1">>, <<"l">>,
      <<" ", "]">>, <<" ", "x">>, <<":", "[">> }

\* process(src + s): a new parser with no tokens and an iterator at offset 0.
ProcessWithSuffix ==
    /\ pc = "returned"
    /\ ~prior.set
    /\ ret = NoRet
    /\ \E s \in Suffixes : src' = src \o s
    /\ prior' = [set |-> TRUE, tokens |-> tokens, len |-> SrcLen, last |-> last]
    /\ last' = 0
    /\ tokens' = <<>>
    /\ stack' = <<>>
    /\ pc' = "scan"
    /\ error' = NoError
    /\ UNCHANGED <<node, ret, iter, schema>>

Init ==
    /\ src \in Inputs
    /\ last = 0
    /\ tokens = <<>>
    /\ stack = <<>>
    /\ pc = "scan"
    /\ error = NoError
    /\ node = 0
    /\ ret = NoRet
    /\ iter = NoIter
    /\ schema = NoSchema
    /\ prior = NoPrior

Next ==
    \/ ParseEof
    \/ ParseNull
    \/ ParseTrue
    \/ ParseFalse
    \/ ParseNumber
    \/ ParseString
    \/ ParseComma
    \/ ParseColon
    \/ ParseArrayOpen
    \/ ParseArrayClose
    \/ ParseObjectOpen
    \/ ParseObjectClose
    \/ ParseUnknown
    \/ ArrayReturn
    \/ ObjectReturn
    \/ PropagateError
    \/ ProcessPanic
    \/ NodeSlice
    \/ NodeGetInt
    \/ NodeGetString
    \/ NodeGetBool
    \/ NodeArrayLen
    \/ NodeGet
    \/ NodeKey
    \/ NodeObjectIter
    \/ IterNext
    \/ FromStr

Spec == Init /\ [][Next]_vars

\* process called on a source, and called once more on that source followed
\* by a suffix.
NextSuffix ==
    \/ ParseEof
    \/ ParseNull
    \/ ParseTrue
    \/ ParseFalse
    \/ ParseNumber
    \/ ParseString
    \/ ParseComma
    \/ ParseColon
    \/ ParseArrayOpen
    \/ ParseArrayClose
    \/ ParseObjectOpen
    \/ ParseObjectClose
    \/ ParseUnknown
    \/ ArrayReturn
    \/ ObjectReturn
    \/ PropagateError
    \/ ProcessPanic
    \/ ProcessWithSuffix

SpecSuffix == Init /\ [][NextSuffix]_vars

(***************************************************************************)
(* Properties.  The structure of a token array is read off the kinds of    *)
(* its tokens alone (opens and closes counted), and the brackets of the    *)
(* text are matched on the text alone; neither reads a close index or a    *)
(* count the tokenizer recorded.                                           *)
(***************************************************************************)
Returned == pc = "returned"

TokenIndices == 0..(Len(tokens) - 1)

IsOpen(i) == Tok(tokens, i).data \in {"ArrayOpen", "ObjectOpen"}

IsClose(i) == Tok(tokens, i).data \in {"ArrayClose", "ObjectClose"}

IsScalar(i) == Tok(tokens, i).data \in {"Null", "True", "False", "Number", "String"}

CloseKind(data) == IF data = "ArrayOpen" THEN "ArrayClose" ELSE "ObjectClose"

\* How many containers are open around the token at index j.
DepthAt(j) ==
    Cardinality({u \in 0..(j - 1) : IsOpen(u)}) - Cardinality({u \in 0..(j - 1) : IsClose(u)})

Enclosing(j) ==
    LET depth == DepthAt(j)
    IN  {i \in 0..(j - 1) : IsOpen(i) /\ DepthAt(i) = depth - 1}

\* The open token of the innermost container around the token at j.
Parent(j) ==
    LET around == Enclosing(j)
    IN  CHOOSE i \in around : \A u \in around : u <= i

\* The direct elements of the container opened at i (keys and values alike).
Children(i) ==
    {j \in TokenIndices : j > i /\ IsValue(Tok(tokens, j)) /\ Enclosing(j) # {} /\ Parent(j) = i}

NthChild(i, n) ==
    LET elements == Children(i)
    IN  CHOOSE j \in elements : Cardinality({x \in elements : x < j}) = n

\* The offset of the bracket that closes the one at offset p, on the text:
\* strings are skipped from quote to quote, brackets counted.
RECURSIVE MatchBracket(_, _)
MatchBracket(p, depth) ==
    IF p >= SrcLen THEN SrcLen
    ELSE IF Ch(p) = "\"" THEN MatchBracket(FindQuote(p + 1) + 1, depth)
    ELSE IF Ch(p) \in {"[", "{"} THEN MatchBracket(p + 1, depth + 1)
    ELSE IF Ch(p) \in {"]", "}"}
         THEN IF depth = 1 THEN p ELSE MatchBracket(p + 1, depth - 1)
    ELSE MatchBracket(p + 1, depth)

\* C1: after process succeeds, every open token at index i has a close index
\* c with i < c < tokens.len(), the token at c is the close of its kind, and
\* every open token strictly between them closes strictly before c.
C1_Nesting ==
    Returned =>
        \A i \in TokenIndices :
            IsOpen(i) =>
                LET c == Tok(tokens, i).n
                IN  /\ i < c
                    /\ c < Len(tokens)
                    /\ Tok(tokens, c).data = CloseKind(Tok(tokens, i).data)
                    /\ \A j \in (i + 1)..(c - 1) : IsOpen(j) => Tok(tokens, j).n < c

\* An array that holds an object that holds an array, and an object in an object.
C1_Witness ==
    /\ Returned
    /\ \E i, j, k \in TokenIndices :
          /\ i < j /\ j < k /\ k < Tok(tokens, j).n
          /\ Tok(tokens, j).n < Tok(tokens, i).n
          /\ Tok(tokens, i).data = "ArrayOpen"
          /\ Tok(tokens, j).data = "ObjectOpen"
          /\ Tok(tokens, k).data = "ArrayOpen"

\* C2: after process succeeds, from the first child of an array whose close
\* token records count n, n applications of next_sibling_index end exactly
\* on the close index, 2n applications for an object; none of them is
\* applied to a close token (which would abort the walk).
C2_SiblingWalk ==
    Returned =>
        \A i \in TokenIndices :
            IsOpen(i) =>
                LET c == Tok(tokens, i).n
                    n == Tok(tokens, c).n
                IN  Walk(i + 1, IF Tok(tokens, i).data = "ArrayOpen" THEN n ELSE 2 * n)
                        = Index(c)

\* An array of two elements whose first is a container with an element of its
\* own, and an object with two entries.
C2_Witness ==
    /\ Returned
    /\ \E i, j \in TokenIndices :
          /\ Tok(tokens, i).data = "ArrayOpen"
          /\ Tok(tokens, Tok(tokens, i).n).n = 2
          /\ IsOpen(i + 1)
          /\ Tok(tokens, i + 1).n > i + 2
          /\ Tok(tokens, j).data = "ObjectOpen"
          /\ Tok(tokens, Tok(tokens, j).n).n = 2

\* The offset one past the last character the scanner of the scalar token at
\* index i consumed: where it left the iterator.
ConsumedEnd(i) ==
    Scan(Tok(tokens, i).data, Tok(tokens, i).start + 1, Tok(tokens, i).start).last

\* C3: for every scalar token of a successfully tokenized input, get_slice
\* returns exactly the characters the tokenizer consumed for it: from the
\* token's first character to the last character consumed.
C3_ScalarSlice ==
    Returned =>
        \A i \in TokenIndices :
            IsScalar(i) =>
                get_slice(i) = Range(Tok(tokens, i).start, ConsumedEnd(i))

\* C4: for every array or object token of a successfully tokenized input,
\* slice() is the text from the opening bracket to its matching closing
\* bracket inclusive, and the slice call a caller makes on such a view
\* returns that text.
C4_ContainerSlice ==
    Returned =>
        /\ \A i \in TokenIndices :
               IsOpen(i) =>
                   LET start == Tok(tokens, i).start
                   IN  /\ Ch(start) = (IF Tok(tokens, i).data = "ArrayOpen" THEN "[" ELSE "{")
                       /\ MatchBracket(start, 0) < SrcLen
                       /\ Ch(MatchBracket(start, 0))
                              = (IF Tok(tokens, i).data = "ArrayOpen" THEN "]" ELSE "}")
                       /\ get_slice(i) = Range(start, MatchBracket(start, 0) + 1)
        /\ (ret.op = "slice" /\ ret.from < Len(tokens) /\ IsOpen(ret.from)) =>
               /\ ret.tag = "ok"
               /\ ret.text = Slice(Tok(tokens, ret.from).start,
                                   MatchBracket(Tok(tokens, ret.from).start, 0) + 1)

\* slice() was called on the view of a nested container that has text before
\* and after it.
C4_Witness ==
    /\ Returned
    /\ ret.op = "slice"
    /\ ret.from > 0
    /\ ret.from < Len(tokens)
    /\ IsOpen(ret.from)
    /\ Len(ret.text) > 2
    /\ Len(ret.text) < SrcLen


IsArrayView(v) == v < Len(tokens) /\ Tok(tokens, v).data = "ArrayOpen"

IsObjectView(v) == v < Len(tokens) /\ Tok(tokens, v).data = "ObjectOpen"

ChildCount(v) == Cardinality(Children(v))

\* The token at index i is a direct element of an array.
IsArrayElement(i) ==
    /\ i < Len(tokens)
    /\ IsValue(Tok(tokens, i))
    /\ Enclosing(i) # {}
    /\ Tok(tokens, Parent(i)).data = "ArrayOpen"

\* The text a Number token spans.
NumberText(i) == Slice(Tok(tokens, i).start, Tok(tokens, i).start + Tok(tokens, i).n)

\* An integer literal: an optional '-' and one digit or more.
IsIntegerLiteral(t) ==
    LET digits == IF t # <<>> /\ Head(t) = "-" THEN Tail(t) ELSE t
    IN  /\ digits # <<>>
        /\ \A k \in 1..Len(digits) : is_digit(digits[k])

\* The digits of |t| without leading zeros, and whether t is below zero.
LiteralMagnitude(t) ==
    LET digits == IF Head(t) = "-" THEN Tail(t) ELSE t
        k == CHOOSE k \in 1..Len(digits) :
                 /\ \A z \in 1..(k - 1) : digits[z] = "0"
                 /\ (digits[k] # "0" \/ k = Len(digits))
    IN  SubSeq(digits, k, Len(digits))

LiteralNegative(t) == Head(t) = "-" /\ LiteralMagnitude(t) # <<"0">>

\* a <= b for two numbers written without leading zeros
DigitsLeq(a, b) ==
    \/ Len(a) < Len(b)
    \/ /\ Len(a) = Len(b)
       /\ \/ a = b
          \/ \E k \in 1..Len(a) :
                /\ SubSeq(a, 1, k - 1) = SubSeq(b, 1, k - 1)
                /\ DigitValue(a[k]) < DigitValue(b[k])

\* -2^63 <= t <= 2^63 - 1
InI64Range(t) ==
    IF LiteralNegative(t)
    THEN DigitsLeq(LiteralMagnitude(t),
                   <<"9", "2", "2", "3", "3", "7", "2", "0", "3", "6", "8", "5", "4", "7",
                     "7", "5", "8", "0", "8">>)
    ELSE DigitsLeq(LiteralMagnitude(t),
                   <<"9", "2", "2", "3", "3", "7", "2", "0", "3", "6", "8", "5", "4", "7",
                     "7", "5", "8", "0", "7">>)

\* get(n) with n below the number of direct elements returns the view of the
\* n-th direct element.
GetReturnsNthElement ==
    (Returned /\ ret.op = "get" /\ IsArrayView(ret.from) /\ ret.n < ChildCount(ret.from)) =>
        /\ ret.tag = "ok"
        /\ ret.index = NthChild(ret.from, ret.n)
        /\ node = ret.index

\* get_int was called on an array element that is an integer literal.
GetIntOnLiteral ==
    /\ Returned
    /\ ret.op = "get_int"
    /\ IsArrayElement(ret.from)
    /\ Tok(tokens, ret.from).data = "Number"
    /\ IsIntegerLiteral(NumberText(ret.from))

GetIntReturnsLiteral ==
    /\ ret.tag = "some"
    /\ ret.neg = LiteralNegative(NumberText(ret.from))
    /\ ret.text = LiteralMagnitude(NumberText(ret.from))

\* C5 as claimed: get(n), n < k, returns the n-th direct element, and get_int
\* on an element that is an integer literal returns that integer.
C5_Original ==
    /\ GetReturnsNthElement
    /\ GetIntOnLiteral => GetIntReturnsLiteral

\* C5 as amended: get(n), n < k, returns the n-th direct element, and get_int
\* on an element that is an integer literal returns that integer when it lies
\* in the i64 range -2^63 .. 2^63 - 1, and None when it lies outside.
C5_GetAndGetInt ==
    /\ GetReturnsNthElement
    /\ GetIntOnLiteral =>
           IF InI64Range(NumberText(ret.from)) THEN GetIntReturnsLiteral
           ELSE ret.tag = "none"

\* get_int returned the integer of an element that get reached past an
\* earlier element that is a container with elements of its own.
C5_Witness ==
    /\ GetIntOnLiteral
    /\ ret.tag = "some"
    /\ node = ret.from
    /\ \E j \in Children(Parent(ret.from)) :
          j < ret.from /\ IsOpen(j) /\ Tok(tokens, j).n > j + 1

\* C6: array_len() on the view of an array returns Some(k), k the number of
\* its direct elements.
C6_ArrayLen ==
    (Returned /\ ret.op = "array_len" /\ IsArrayView(ret.from)) =>
        /\ ret.tag = "some"
        /\ ret.n = ChildCount(ret.from)

\* The entries of the object opened at v: its direct elements in pairs.
EntryCount(v) == ChildCount(v) \div 2

KeyAt(v, j) == NthChild(v, 2 * j)

ValueAt(v, j) == NthChild(v, 2 * j + 1)

AllKeysStrings(v) ==
    \A j \in 0..(EntryCount(v) - 1) : Tok(tokens, KeyAt(v, j)).data = "String"

\* The text between the quotes of the String token at index i.
KeyText(i) == Slice(Tok(tokens, i).start + 1, Tok(tokens, i).start + Tok(tokens, i).n - 1)

\* The direct entries of v whose key is a string with the text target.
Matching(v, target) ==
    {j \in 0..(EntryCount(v) - 1) :
        LET k == KeyAt(v, j)
        IN  Tok(tokens, k).data = "String" /\ KeyText(k) = target}

FirstMatching(v, target) ==
    LET found == Matching(v, target)
    IN  CHOOSE j \in found : \A x \in found : j <= x

\* C7: on an object whose keys are all strings, key(k) returns the view of
\* the value of the first direct entry whose key text is k; keys of nested
\* objects are not matched (with no direct match the lookup fails), and this
\* holds of every view reached, a nested object returned by key included.
C7_KeyLookup ==
    (Returned /\ ret.op = "key" /\ IsObjectView(ret.from) /\ AllKeysStrings(ret.from)) =>
        IF Matching(ret.from, ret.key) # {}
        THEN /\ ret.tag = "ok"
             /\ ret.index = ValueAt(ret.from, FirstMatching(ret.from, ret.key))
             /\ node = ret.index
        ELSE ret.tag = "err"

\* key("key2") found true in an object that is itself the value of an entry
\* of the root object, as in node_tests.
C7_Witness ==
    /\ Returned
    /\ ret.op = "key"
    /\ IsObjectView(ret.from)
    /\ AllKeysStrings(ret.from)
    /\ ret.tag = "ok"
    /\ ret.from > 0
    /\ Tok(tokens, Parent(ret.from)).data = "ObjectOpen"
    /\ ret.key = <<"k", "e", "y", "2">>
    /\ Tok(tokens, ret.index).data = "True"

\* C8: on every object view, when no direct key is a string whose text is
\* the target, key(k) returns Err(JsonNodeError): no view and no abort,
\* also when the object has keys that are not strings.
C8_KeyNotFound ==
    (Returned /\ ret.op = "key" /\ IsObjectView(ret.from)
        /\ Matching(ret.from, ret.key) = {}) =>
        ret.tag = "err"

\* The bracket that closes the container a frame scans.
CloseOf(fn) == IF fn = "array" THEN "]" ELSE "}"

\* Once parse has failed the error is handed up unchanged until process panics.
ErrorKept ==
    [][pc = "failed" => (error' = error /\ pc' \in {"failed", "panicked"})]_vars

\* The next token of the innermost container is a comma, and after the comma
\* and whitespace comes the bracket that closes this container.
CommaBeforeClose ==
    /\ Scanning
    /\ stack # <<>>
    /\ LET c == SkipWhitespace(last)
       IN  /\ c < SrcLen
           /\ Ch(c) = ","
           /\ SkipWhitespace(c + 1) < SrcLen
           /\ Ch(SkipWhitespace(c + 1)) = CloseOf(Top(stack).fn)

\* The comma was taken as a separator: the scan goes on, one past the comma,
\* to the parse call for the next element or key.
CommaTaken ==
    /\ pc' = "scan"
    /\ last' = SkipWhitespace(last) + 1
    /\ Top(stack').site = (IF Top(stack).fn = "array" THEN "value" ELSE "key")
    /\ tokens' = tokens

\* After a comma taken as a separator, the closing bracket of the container
\* fails with Unknown(offset of the bracket, the bracket).
CloseAfterCommaFails ==
    [][(/\ Scanning
        /\ stack # <<>>
        /\ Top(stack).site \in {"value", "key"}
        /\ SkipWhitespace(last) < SrcLen
        /\ Ch(SkipWhitespace(last)) = CloseOf(Top(stack).fn))
        => (/\ Ch(last - 1) = ","
            /\ pc' = "failed"
            /\ error' = Unknown(SkipWhitespace(last), CloseOf(Top(stack).fn)))]_vars

\* A closing bracket right after the opening one ends the scan with count 0,
\* and the close token of every empty container holds 0.
EmptyContainerAccepted ==
    /\ [][(/\ Scanning
           /\ stack # <<>>
           /\ Top(stack).site = "first"
           /\ SkipWhitespace(last) < SrcLen
           /\ Ch(SkipWhitespace(last)) = CloseOf(Top(stack).fn))
           => (/\ pc' = "scan"
               /\ Top(stack').site = "return"
               /\ Top(stack').count = 0)]_vars
    /\ [](Returned =>
            \A i \in TokenIndices :
                (IsOpen(i) /\ Tok(tokens, i).n = i + 1) => Tok(tokens, i + 1).n = 0)

TrailingCommaExample ==
    [](( /\ src = <<"[", "1", ",", " ", "2", ",", "]">>
         /\ pc \in {"returned", "panicked"})
        => (pc = "panicked" /\ error = Unknown(6, "]")))

\* C9 as claimed: every comma of a container that is followed, whitespace
\* aside, by the closing bracket of the container makes the tokenization fail
\* with Unknown(offset of that bracket, bracket); [] and {} have count 0.
C9_Original ==
    /\ [][CommaBeforeClose => CommaTaken]_vars
    /\ CloseAfterCommaFails
    /\ ErrorKept
    /\ TrailingCommaExample
    /\ EmptyContainerAccepted

\* C9 as amended: a comma that comes after an element of an array or after
\* an entry of an object and is followed, whitespace aside, by the closing
\* bracket of the container makes the tokenization fail with
\* Unknown(offset of that bracket, bracket), as [1, 2,] does with
\* Unknown(6, ']'); a comma in any other place of the container (before the
\* first element, after another comma, after a key or a colon) fails with
\* Unknown(offset of the comma, ','); [] and {} are taken with count 0.
C9_TrailingComma ==
    /\ [][CommaBeforeClose =>
            IF Top(stack).site = "comma" THEN CommaTaken
            ELSE /\ pc' = "failed"
                 /\ error' = Unknown(SkipWhitespace(last), ",")]_vars
    /\ CloseAfterCommaFails
    /\ ErrorKept
    /\ TrailingCommaExample
    /\ EmptyContainerAccepted

\* The scan of an object inside another container failed at '}' right after
\* the comma that followed an entry.
C9_Witness ==
    /\ pc = "failed"
    /\ Len(stack) >= 2
    /\ Top(stack).site = "key"
    /\ error = Unknown(last - 1, "}")
    /\ Ch(last - 1) = "}"

\* The offset after the last character of src that is no whitespace.
TextEnd ==
    CHOOSE e \in 0..SrcLen :
        /\ \A k \in e..(SrcLen - 1) : is_whitespace(Ch(k))
        /\ (e = 0 \/ ~is_whitespace(Ch(e - 1)))

KeywordOf(c) ==
    CASE c = "n" -> <<"n", "u", "l", "l">>
      [] c = "t" -> <<"t", "r", "u", "e">>
      [] c = "f" -> <<"f", "a", "l", "s", "e">>

\* The text from offset i to offset e is the beginning of a keyword, and not
\* all of it.
InsideKeyword(i, e) ==
    /\ i < e
    /\ Ch(i) \in {"n", "t", "f"}
    /\ e - i < Len(KeywordOf(Ch(i)))
    /\ Slice(i, e) = SubSeq(KeywordOf(Ch(i)), 1, e - i)

\* A string opens at offset i and no quote follows.
InsideString(i) ==
    /\ i < SrcLen
    /\ Ch(i) = "\""
    /\ \A k \in (i + 1)..(SrcLen - 1) : Ch(k) # "\""

FailsWithEof == pc' = "failed" /\ error' = Eof

\* Only whitespace or nothing is left before a token starts: in a container
\* that is still open, or before the first token of the input.
EofBeforeToken ==
    [][(Scanning /\ SkipWhitespace(last) = SrcLen) => FailsWithEof]_vars

EofInsideString ==
    [][(Scanning /\ InsideString(SkipWhitespace(last))) => FailsWithEof]_vars

UnterminatedExample ==
    [](( /\ src = <<"{", "\"", "a", "\"", ":", "1">>
         /\ pc \in {"returned", "panicked"})
        => (pc = "panicked" /\ error = Eof))

\* C10 as claimed: when the input ends, with only whitespace or nothing left,
\* in an open container, in a string before its closing quote or in a
\* keyword, the tokenization fails with Eof; so does an empty or
\* whitespace-only input.
C10_Original ==
    /\ EofBeforeToken
    /\ EofInsideString
    /\ [][(Scanning /\ InsideKeyword(SkipWhitespace(last), TextEnd)) => FailsWithEof]_vars
    /\ ErrorKept
    /\ UnterminatedExample

\* C10 as amended: when the input ends, with only whitespace or nothing left,
\* in an open container or in a string before its closing quote, or ends
\* with nothing left in a keyword, the tokenization fails with Eof, as
\* {"a":1 does; so does an empty or whitespace-only input.  When whitespace
\* follows the unfinished keyword the tokenization fails with
\* Unknown(offset of the first whitespace character, that character).
C10_Eof ==
    /\ EofBeforeToken
    /\ EofInsideString
    /\ [][(Scanning /\ InsideKeyword(SkipWhitespace(last), TextEnd)) =>
            IF TextEnd = SrcLen THEN FailsWithEof
            ELSE /\ pc' = "failed"
                 /\ error' = Unknown(TextEnd, Ch(TextEnd))]_vars
    /\ ErrorKept
    /\ UnterminatedExample

\* The input ended in a keyword that is an element of a container still open.
C10_Witness ==
    /\ pc = "failed"
    /\ error = Eof
    /\ stack # <<>>
    /\ last = SrcLen
    /\ \E i \in 0..(SrcLen - 1) : InsideKeyword(i, SrcLen)

(***************************************************************************)
(* Number literals, read off the text alone.                               *)
(***************************************************************************)
\* The characters of t after position from up to position to are digits,
\* one at least.
DigitRun(t, from, to) ==
    /\ from < to
    /\ \A k \in (from + 1)..to : is_digit(t[k])

\* t is: optional '-', digits, optional '.' and digits, optional exponent
\* of 'e' or 'E', an optional sign and digits.
IsNumberLiteral(t) ==
    LET s == IF t # <<>> /\ t[1] = "-" THEN 1 ELSE 0
    IN  \E a \in (s + 1)..Len(t) :
          /\ DigitRun(t, s, a)
          /\ \E b \in a..Len(t) :
                /\ IF b = a THEN TRUE ELSE t[a + 1] = "." /\ DigitRun(t, a + 1, b)
                /\ IF b = Len(t) THEN TRUE
                   ELSE /\ t[b + 1] \in {"e", "E"}
                        /\ LET x == IF b + 2 <= Len(t) /\ t[b + 2] \in {"+", "-"}
                                    THEN b + 2 ELSE b + 1
                           IN  DigitRun(t, x, Len(t))

NumberChars == {"0", "1", "2", "3", "4", "5", "6", "7", "8", "9", "-", "+", ".", "e", "E"}

\* The offset after the run of number characters that starts at offset i.
NumberRunEnd(i) ==
    CHOOSE e \in i..SrcLen :
        /\ \A k \in i..(e - 1) : Ch(k) \in NumberChars
        /\ (e = SrcLen \/ Ch(e) \notin NumberChars)

\* C11: a number literal (optional '-', digits, optional fraction, optional
\* exponent with an optional sign) that parse is about to read becomes one
\* Number token whose length is the length of the whole literal, an
\* exponent without a sign (1e5) included.
C11_NumberLiteral ==
    [][(/\ Scanning
        /\ SkipWhitespace(last) < SrcLen
        /\ IsNumberLiteral(Slice(SkipWhitespace(last), NumberRunEnd(SkipWhitespace(last)))))
        => LET i == SkipWhitespace(last)
               e == NumberRunEnd(i)
           IN  /\ tokens' = Append(tokens, JsonToken(i, "Number", e - i))
               /\ last' = e]_vars

\* The part of C11 that the tokenizer does: the same for every literal whose
\* exponent, if it has one, carries a sign.
SignedExponentLiteral ==
    [][(/\ Scanning
        /\ SkipWhitespace(last) < SrcLen
        /\ LET t == Slice(SkipWhitespace(last), NumberRunEnd(SkipWhitespace(last)))
           IN  /\ IsNumberLiteral(t)
               /\ \A k \in 1..(Len(t) - 1) : t[k] \in {"e", "E"} => t[k + 1] \in {"+", "-"})
        => LET i == SkipWhitespace(last)
               e == NumberRunEnd(i)
           IN  /\ tokens' = Append(tokens, JsonToken(i, "Number", e - i))
               /\ last' = e]_vars

\* C12: in every parser that process returned, tokens is not empty and
\* tokens[0] is a Value token, so the root view designates the root value;
\* an input that begins with ']', '}', ',' or ':' gives no parser.
C12_RootIsValue ==
    Returned => (tokens # <<>> /\ IsValue(Tok(tokens, 0)))

\* C13: once a step has produced a ParseError, no character is consumed and
\* no token is appended or patched, the error leaves one enclosing container
\* scan after the other unchanged, process panics with it, and after that
\* nothing is done with the parser: no token array reaches a caller.
C13_ErrorIsTerminal ==
    /\ [][pc = "failed" =>
            /\ last' = last
            /\ tokens' = tokens
            /\ error' = error
            /\ IF stack # <<>>
               THEN pc' = "failed" /\ stack' = Pop(stack)
               ELSE pc' = "panicked" /\ stack' = stack]_vars
    /\ [][pc' = "failed" => error' # NoError]_vars
    /\ [][pc # "panicked"]_vars
    /\ [](pc \in {"failed", "panicked"} => (ret = NoRet /\ node = 0))
    /\ [][(ret' # ret \/ node' # node) => (pc = "returned" /\ error = NoError)]_vars

\* process panicked with input left over, after the error left the scans of
\* two containers whose tokens had been pushed.
C13_Witness ==
    /\ pc = "panicked"
    /\ error # NoError
    /\ last < SrcLen
    /\ Len(tokens) >= 2
    /\ IsOpen(0)
    /\ IsOpen(1)

\* C14: on an array view with k direct elements, get(n) with n >= k returns
\* Ok with a view at or past the close index of the array; it returns no
\* error and does not abort.
C14_GetPastEnd ==
    (Returned /\ ret.op = "get" /\ IsArrayView(ret.from) /\ ret.n >= ChildCount(ret.from)) =>
        /\ ret.tag = "ok"
        /\ ret.index >= Tok(tokens, ret.from).n

\* The part of C14 that get does: get(k) returns the view on the close token.
GetAtCount ==
    (Returned /\ ret.op = "get" /\ IsArrayView(ret.from) /\ ret.n = ChildCount(ret.from)) =>
        /\ ret.tag = "ok"
        /\ ret.index = Tok(tokens, ret.from).n

\* get(n) with n > k aborts in next_sibling_index.
GetBeyondCountAborts ==
    (Returned /\ ret.op = "get" /\ IsArrayView(ret.from) /\ ret.n > ChildCount(ret.from)) =>
        ret.tag = "abort"

\* The token at index i does not have the kind the call asks for.
Mismatch(op, i) ==
    CASE op = "get_int"    -> Tok(tokens, i).data # "Number"
      [] op = "get_bool"   -> Tok(tokens, i).data \notin {"True", "False"}
      [] op = "get_string" -> Tok(tokens, i).data # "String"
      [] op = "get"        -> Tok(tokens, i).data # "ArrayOpen"
      [] op = "key"        -> Tok(tokens, i).data # "ObjectOpen"
      [] OTHER             -> FALSE

\* C15: at every token index of a tokenized input, close tokens included,
\* get_int, get_bool and get_string return None when the token is no
\* Number, no True/False, no String, and get(n) and key(k) return
\* Err(JsonNodeError) for every n and k when the token is no ArrayOpen, no
\* ObjectOpen; none of them aborts.  Stated of the call a view has made and
\* of every token index of the parser process returned.
C15_TypeMismatch ==
    /\ (Returned /\ ret.from < Len(tokens) /\ Mismatch(ret.op, ret.from)) =>
           ret.tag = (IF ret.op \in {"get", "key"} THEN "err" ELSE "none")
    /\ (Returned /\ ret = NoRet) =>
           \A i \in TokenIndices :
               /\ Mismatch("get_int", i) => get_int(i).tag = "none"
               /\ Mismatch("get_bool", i) => get_bool(i) = "none"
               /\ Mismatch("get_string", i) => get_string(i).tag = "none"
               /\ Mismatch("get", i) => \A n \in 0..MaxIndex : get(i, n) = NodeErr
               /\ Mismatch("key", i) => \A k \in Targets : key(i, k) = NodeErr

\* get_bool was asked of the view on a close token, the one get returned for
\* the index one past the last element.
C15_Witness ==
    /\ Returned
    /\ ret.op = "get_bool"
    /\ 0 < ret.from
    /\ ret.from < Len(tokens)
    /\ IsClose(ret.from)
    /\ ret.tag = "none"

\* C16: on an object view with n key/value pairs, the calls of next() on
\* object_iter() yield n items in document order, the j-th the text of the
\* j-th key with the view on the j-th value, then None with the cursor on
\* the close index of the object, and None on every later call; on a view
\* that is no object the first call yields None.
C16_ObjectIter ==
    (Returned /\ ret.op = "next" /\ ret.from < Len(tokens)) =>
        IF IsObjectView(ret.from)
        THEN /\ ret.tag \in {"some", "none"}
             /\ ret.tag = "some" =>
                   /\ iter.yielded <= EntryCount(ret.from)
                   /\ ret.text = KeyText(KeyAt(ret.from, iter.yielded - 1))
                   /\ ret.index = ValueAt(ret.from, iter.yielded - 1)
             /\ ret.tag = "none" =>
                   /\ iter.yielded = EntryCount(ret.from)
                   /\ iter.current = Tok(tokens, ret.from).n
        ELSE ret.tag = "none" /\ iter.yielded = 0

\* The part of C16 that the iterator does: the same on an object whose keys
\* are all strings, and on a view that is no object.
StringKeysIter ==
    (IsObjectView(ret.from) => AllKeysStrings(ret.from)) => C16_ObjectIter

\* There is a quote after offset i.
HasQuoteAfter(i) == \E q \in (i + 1)..(SrcLen - 1) : Ch(q) = "\""

\* The offset of the first quote after offset i.
FirstQuoteAfter(i) ==
    CHOOSE q \in (i + 1)..(SrcLen - 1) :
        Ch(q) = "\"" /\ \A k \in (i + 1)..(q - 1) : Ch(k) # "\""

\* C17: a String token starts at a quote and runs to the first quote after
\* it, that quote included, a backslash before it or not, so its length is
\* 2 at least; get_string returns the characters strictly between the two
\* quotes; with no quote after the opening one the tokenization fails with Eof.
C17_StringToken ==
    /\ [][(/\ Scanning
           /\ SkipWhitespace(last) < SrcLen
           /\ Ch(SkipWhitespace(last)) = "\"")
           => LET i == SkipWhitespace(last)
              IN  IF HasQuoteAfter(i)
                  THEN /\ tokens' = Append(tokens,
                                           JsonToken(i, "String", FirstQuoteAfter(i) + 1 - i))
                       /\ last' = FirstQuoteAfter(i) + 1
                  ELSE /\ pc' = "failed"
                       /\ error' = Eof
                       /\ tokens' = tokens]_vars
    /\ [](\A i \in TokenIndices : Tok(tokens, i).data = "String" => Tok(tokens, i).n >= 2)
    /\ []((Returned /\ ret.op = "get_string" /\ ret.from < Len(tokens)
             /\ Tok(tokens, ret.from).data = "String") =>
            /\ ret.tag = "some"
            /\ ret.text = Slice(Tok(tokens, ret.from).start + 1,
                                FirstQuoteAfter(Tok(tokens, ret.from).start)))

\* get_string returned the text of a string that ends at a quote with a
\* backslash before it, and more text with a quote follows.
C17_Witness ==
    /\ Returned
    /\ ret.op = "get_string"
    /\ ret.tag = "some"
    /\ ret.text # <<>>
    /\ ret.text[Len(ret.text)] = "\\"
    /\ ret.from > 0
    /\ HasQuoteAfter(Tok(tokens, ret.from).start + Len(ret.text) + 1)

\* The kind of the token that begins with the character c.
KindAt(c) ==
    CASE c = "[" -> "ArrayOpen"
      [] c = "]" -> "ArrayClose"
      [] c = "{" -> "ObjectOpen"
      [] c = "}" -> "ObjectClose"
      [] c = "n" -> "Null"
      [] c = "t" -> "True"
      [] c = "f" -> "False"
      [] c = "\"" -> "String"
      [] c \in {"0", "1", "2", "3", "4", "5", "6", "7", "8", "9", "-"} -> "Number"
      [] OTHER -> "None"

\* The offset after the text of the token at index i: after the bracket, or
\* where the scanner of the scalar left the iterator.
TokenEnd(i) ==
    IF IsOpen(i) \/ IsClose(i) THEN Tok(tokens, i).start + 1 ELSE ConsumedEnd(i)

\* Nothing but whitespace, commas and colons from offset from up to offset to.
OnlySeparators(from, to) ==
    \A k \in from..(to - 1) : is_whitespace(Ch(k)) \/ Ch(k) \in {",", ":"}

\* C18: the token array process returns is the list, in document order, of
\* the value tokens and close tokens of the text it read: every entry is a
\* value or a close token of the kind its first character begins, the start
\* offsets increase strictly, an open token comes before every token of its
\* container, and between one token and the next the text holds only
\* whitespace, commas and colons, for which there is no entry.
C18_DocumentOrder ==
    Returned =>
        /\ \A i \in TokenIndices :
              /\ Tok(tokens, i).data \in ValueKinds \cup {"ArrayClose", "ObjectClose"}
              /\ Tok(tokens, i).data = KindAt(Ch(Tok(tokens, i).start))
              /\ TokenEnd(i) <= last
              /\ IsOpen(i) => \A j \in (i + 1)..Tok(tokens, i).n :
                                  Tok(tokens, i).start < Tok(tokens, j).start
        /\ \A i, j \in TokenIndices : i < j => Tok(tokens, i).start < Tok(tokens, j).start
        /\ \A i \in TokenIndices :
              OnlySeparators(IF i = 0 THEN 0 ELSE TokenEnd(i - 1), Tok(tokens, i).start)
        /\ OnlySeparators(IF tokens = <<>> THEN 0 ELSE TokenEnd(Len(tokens) - 1), last)

\* A document of nested containers with commas and colons was tokenized.
C18_Witness ==
    /\ Returned
    /\ ret = NoRet
    /\ Len(tokens) >= 8
    /\ \E i, j \in TokenIndices : i < j /\ IsOpen(i) /\ IsOpen(j) /\ j < Tok(tokens, i).n
    /\ \E k \in 0..(last - 1) : Ch(k) = ":"
    /\ \E k \in 0..(last - 1) : Ch(k) = ","

\* The innermost container scan is at one of sites and about to call parse.
ScanAt(sites) == Scanning /\ stack # <<>> /\ Top(stack).site \in sites

\* The character the next token begins with, "" at the end of the input.
NextChar == IF SkipWhitespace(last) < SrcLen THEN Ch(SkipWhitespace(last)) ELSE ""

ScalarFirst == {"n", "t", "f", "\"", "-", "0", "1", "2", "3", "4", "5", "6", "7", "8", "9"}

\* The next token is a scalar that its scanner accepts.
ScalarNext ==
    /\ NextChar \in ScalarFirst
    /\ Scan(KindAt(NextChar), SkipWhitespace(last) + 1, SkipWhitespace(last)).ok

\* A container scan has returned to the parse call made by the scan around
\* it at one of sites.
ContainerBackAt(sites) ==
    /\ pc = "scan"
    /\ Len(stack) >= 2
    /\ Top(stack).site = "return"
    /\ stack[Len(stack) - 1].site \in sites

FailsWith(e) == pc' = "failed" /\ error' = e

\* After a complete value ("comma") or after a key ("colon"), a value fails
\* with Value(offset, kind): a scalar, or a container tokenized to its end.
ValueWhereSeparator(sites) ==
    /\ (ScanAt(sites) /\ ScalarNext) =>
           LET i == SkipWhitespace(last)
           IN  FailsWith(ValueError(i, JsonValue(Scan(KindAt(NextChar), i + 1, i).token)))
    /\ ContainerBackAt(sites) =>
           LET f == Top(stack)
               data == IF f.fn = "array" THEN "ArrayOpen" ELSE "ObjectOpen"
           IN  FailsWith(ValueError(f.i, [data |-> data, n |-> Len(tokens) - 1]))

\* C20: after a complete value in an array or an object the next token must
\* be a comma or the closing bracket: a second value fails with
\* Value(its offset, its kind); a comma where a value or a key is due (at
\* the start of a container, after a comma, after a colon) fails with
\* Unknown(offset of the comma, ','); after a key, a value fails with Value
\* and any other token but the colon with Unknown(its offset, its character).
C20_Separators ==
    /\ [][ValueWhereSeparator({"comma"})]_vars
    /\ [][(ScanAt({"first", "value", "key", "cvalue"}) /\ NextChar = ",") =>
            FailsWith(Unknown(SkipWhitespace(last), ","))]_vars
    /\ [][ValueWhereSeparator({"colon"})]_vars
    /\ [][(ScanAt({"colon"}) /\ NextChar \in {",", "]", "}"}) =>
            FailsWith(Unknown(SkipWhitespace(last), NextChar))]_vars
    /\ [][(ScanAt({"colon"}) /\ NextChar = ":") => pc' = "scan"]_vars
    /\ [][(ScanAt({"comma"}) /\ NextChar = ",") => pc' = "scan"]_vars
    /\ ErrorKept

\* A container, tokenized to its end, stood where a comma or the closing
\* bracket was due.
C20_Witness ==
    /\ pc = "failed"
    /\ stack # <<>>
    /\ error.kind = "Value"
    /\ error.value.data \in {"ArrayOpen", "ObjectOpen"}
    /\ error.value.n = Len(tokens) - 1
    /\ error.at = Tok(tokens, Len(tokens) - 2).start

\* The direct entries of the root object whose key is the string name.
EntriesNamed(name) == Matching(0, name)

\* The entries named name whose value is a string.
StringEntriesNamed(name) ==
    {j \in EntriesNamed(name) : Tok(tokens, ValueAt(0, j)).data = "String"}

\* The string value of the last entry named name that has one; the empty
\* string when there is no such entry.
LastStringOf(name) ==
    IF StringEntriesNamed(name) = {} THEN <<>>
    ELSE LET j == CHOOSE x \in StringEntriesNamed(name) :
                      \A y \in StringEntriesNamed(name) : y <= x
         IN  KeyText(ValueAt(0, j))

\* The value at token index v is [ { "$ref": "<string>" } ].
AllOfShape(v) ==
    /\ IsArrayView(v)
    /\ ChildCount(v) = 1
    /\ LET o == NthChild(v, 0)
       IN  /\ IsObjectView(o)
           /\ ChildCount(o) = 2
           /\ Tok(tokens, KeyAt(o, 0)).data = "String"
           /\ KeyText(KeyAt(o, 0)) = KeyRef
           /\ Tok(tokens, ValueAt(o, 0)).data = "String"

\* from_str ran on a root object whose keys are strings and whose allOf
\* values have the documented shape.
SchemaDocument ==
    /\ Returned
    /\ ret.op = "from_str"
    /\ IsObjectView(0)
    /\ AllKeysStrings(0)
    /\ \A j \in EntriesNamed(KeyAllOf) : AllOfShape(ValueAt(0, j))

\* C19: on a root object with string keys and allOf, if present, of the
\* shape [ { "$ref": "<string>" } ], from_str returns the record whose
\* title, description and json_type are the string values of the title,
\* description and type entries (the last when repeated, empty when absent
\* or no string); no other key changes the record or makes it fail.
C19_SchemaRecord ==
    SchemaDocument =>
        /\ schema.state = "done"
        /\ schema.title = LastStringOf(KeyTitle)
        /\ schema.description = LastStringOf(KeyDescription)
        /\ schema.json_type = LastStringOf(KeyType)

\* The part of C19 that from_str does: the same on a root object with
\* string keys and no allOf entry.
WithoutAllOf ==
    (SchemaDocument /\ EntriesNamed(KeyAllOf) = {}) => C19_SchemaRecord

\* from_str fails on every root object with string keys that has an allOf
\* entry, reached by the loop, of the documented shape.
AllOfFails ==
    (SchemaDocument /\ EntriesNamed(KeyAllOf) # {}) => schema.state = "panicked"

\* The scan of a container has returned Ok and parse is about to patch.
ScanReturned == pc = "scan" /\ stack # <<>> /\ Top(stack).site = "return"

\* While the scan of a container has not returned, or has failed, its open
\* token holds the placeholder: its own index plus one.
PlaceholderKept ==
    \A k \in 1..Len(stack) :
        LET o == stack[k].open_index
        IN  /\ o < Len(tokens)
            /\ IsOpen(o)
            /\ Tok(tokens, o).start = stack[k].i
            /\ Tok(tokens, o).n = o + 1

\* The step after the scan returned writes the close index into the open
\* token and the count into the close token, which held 0, and nothing
\* else; the scan is over, so the two are not written again.
PatchStep ==
    ScanReturned =>
        LET o == Top(stack).open_index
            c == Len(tokens) - 1
        IN  /\ IsClose(c)
            /\ Tok(tokens, c).n = 0
            /\ Len(tokens') = Len(tokens)
            /\ Tok(tokens', o) = [Tok(tokens, o) EXCEPT !.n = c]
            /\ Tok(tokens', c) = [Tok(tokens, c) EXCEPT !.n = Top(stack).count]
            /\ \A k \in TokenIndices : k \notin {o, c} => Tok(tokens', k) = Tok(tokens, k)
            /\ Len(stack') = Len(stack) - 1

\* Every other step leaves the token array as it is or pushes one token.
PushStep ==
    ~ScanReturned =>
        \/ tokens' = tokens
        \/ /\ Len(tokens') = Len(tokens) + 1
           /\ SubSeq(tokens', 1, Len(tokens)) = tokens

\* C21: from the push of an open token at index i until the scan of its
\* container returns, its close-index field is the placeholder i + 1; when
\* the scan returns Ok the field is written once with the close index, and
\* the count of the close token in the same step; no other write into the
\* token array happens, and once process has returned no call changes a
\* token or the source text.
C21_BackPatchOnce ==
    /\ []PlaceholderKept
    /\ [][PatchStep]_vars
    /\ [][PushStep]_vars
    /\ [][src' = src]_vars
    /\ [][pc = "returned" => tokens' = tokens]_vars

\* Inside a container whose open token still holds the placeholder, with
\* elements of its own after it, a container is already patched.
C21_Witness ==
    /\ pc = "scan"
    /\ stack # <<>>
    /\ \E j \in TokenIndices :
          /\ j > Top(stack).open_index + 1
          /\ IsOpen(j)
          /\ Tok(tokens, j).n > j + 1
          /\ \A k \in 1..Len(stack) : stack[k].open_index # j

IsNumberToken(i) == Tok(tokens, i).data = "Number"

\* What get_number_token does record: a text that starts the consumed text,
\* ends at the last digit read, and is the first character alone when no
\* digit was read.
NumberTokenRecorded ==
    Returned =>
        \A i \in TokenIndices :
            IsNumberToken(i) =>
                LET t == NumberText(i)
                IN  /\ 1 <= Len(t)
                    /\ Tok(tokens, i).start + Len(t) <= ConsumedEnd(i)
                    /\ IF is_digit(t[Len(t)]) THEN TRUE ELSE t = <<"-">>

\* C22: every Number token of a successfully tokenized input spans (start
\* plus recorded length) a well-formed numeric literal: optional '-', one
\* digit or more, optional '.' and digits, optional exponent; and the
\* recorded length is the length of the text consumed for the literal, so a
\* lone '-' and a literal that ends in '.' or in an exponent marker are
\* never recorded as a Number.
C22_NumberTokenWellFormed ==
    Returned =>
        \A i \in TokenIndices :
            IsNumberToken(i) =>
                /\ IsNumberLiteral(NumberText(i))
                /\ Tok(tokens, i).start + Tok(tokens, i).n = ConsumedEnd(i)

\* The first call returned a root that is a string, a keyword or a
\* container, and its source ended with the last character of that root.
PriorRootEndsSource ==
    /\ prior.set
    /\ prior.tokens # <<>>
    /\ prior.tokens[1].data \in {"String", "Null", "True", "False", "ArrayOpen", "ObjectOpen"}
    /\ prior.last = prior.len

\* C23: when process succeeds on p, the root is a string, a keyword or a
\* container and p ends with the root's last character, then process on p
\* followed by any suffix never fails, never reads a character of the
\* suffix, and returns the token array it returned on p.
C23_SuffixIgnored ==
    PriorRootEndsSource =>
        /\ pc \in {"scan", "returned"}
        /\ error = NoError
        /\ last <= prior.len
        /\ Len(tokens) <= Len(prior.tokens)
        /\ (pc = "returned" => tokens = prior.tokens /\ last = prior.len)

\* The second call has returned a container with an element, short of a
\* suffix that is no JSON.
C23_Witness ==
    /\ PriorRootEndsSource
    /\ pc = "returned"
    /\ tokens = prior.tokens
    /\ Len(tokens) >= 3
    /\ IsOpen(0)
    /\ last < SrcLen
    /\ Ch(SrcLen - 1) \in {"]", "x"}
    /\ Ch(last) = " "

====
